---- MODULE Spec2Model ----
(***************************************************************************)
(* Job lifecycle and retry/compensation state machine of the gemini-worker *)
(* services: the /process endpoint in its pull, push and by-job_id         *)
(* variants against a shared ai_jobs table, and callGeminiWithRetry.       *)
(***************************************************************************)
EXTENDS Integers, Sequences, FiniteSets, TLC

VARIABLES
    variant,    \* which /process variant the deployed worker runs
    workerSecret, \* whether process.env.WORKER_SECRET is set in the deployment
    jobs,       \* the ai_jobs table: job id -> row
    inv,        \* the /process invocations: invocation -> local state
    refunds,    \* job id -> number of refund rpc calls issued for it
    termWrites, \* job id -> number of terminal status writes that changed the row
    rin,        \* input of the callGeminiWithRetry call under study
    rres        \* its result

vars == <<variant, workerSecret, jobs, inv, refunds, termWrites, rin, rres>>

(***************************************************************************)
(* Bounds of the model                                                     *)
(***************************************************************************)
NumInvocations == 2
NumJobs == 1
\* polls after which a video operation that finishes has reported done
MaxPolls == 2

(***************************************************************************)
(* Program constants                                                       *)
(***************************************************************************)
StatusOverloaded == 503
StatusRateLimited == 429
StatusInternal == 500
DefaultMaxRetries == 3
ProMaxRetries == 6
DefaultBaseDelay == 2000
ProBaseDelay == 5000
JitterRange == 2000

\* statuses the backend answers with that no variant retries: an error that
\* carries no status (0), bad request
FatalStatuses == {0, 400}
TransientStatuses == {StatusOverloaded, StatusRateLimited, StatusInternal}
ErrStatuses == FatalStatuses \cup TransientStatuses

\* outcome of one call of the wrapped operation fn: a returned value, or an
\* error raised with a status
Ok == [ok |-> TRUE, status |-> 0]
Err(s) == [ok |-> FALSE, status |-> s]
Outcomes == {Ok} \cup {Err(s) : s \in ErrStatuses}

(***************************************************************************)
(* callGeminiWithRetry                                                     *)
(*   "fixed"  : src/index.js:438, src/unnamed/part_002:29                  *)
(*   "tiered" : src/unnamed/part_003:25                                    *)
(***************************************************************************)
RetryVariants == {"fixed", "tiered"}

MaxRetries(rv, isPro) ==
    IF rv = "fixed" THEN DefaultMaxRetries
    ELSE IF isPro THEN ProMaxRetries ELSE DefaultMaxRetries

RetryEveryError(rv, status) == TRUE

IsRetryable(rv, status) ==
    IF rv = "fixed"
    THEN status \in {StatusOverloaded, StatusRateLimited, StatusInternal}
    ELSE status \in {StatusOverloaded, StatusRateLimited}

\* the "fixed" variant re-throws on the last attempt before classifying
\* (if (i === maxRetries - 1) throw err); the "tiered" variant has no such line
RethrowOnLast(rv) == rv = "fixed"

Returned(i, sleeps) ==
    [kind |-> "return", status |-> 0, value |-> i, calls |-> i + 1, sleeps |-> sleeps]
Thrown(i, status, sleeps) ==
    [kind |-> "throw", status |-> status, value |-> -1, calls |-> i + 1, sleeps |-> sleeps]
FellThrough(i, sleeps) ==
    [kind |-> "undefined", status |-> 0, value |-> -1, calls |-> i, sleeps |-> sleeps]

\* The for-loop from iteration i on.  outs[k] is the outcome of the k-th call
\* of fn; sleeps is the sequence of loop indices after which the loop slept.
\* kind "return": fn's value is returned (value = index of the attempt that
\* produced it); "throw": err is re-thrown with its status; "undefined": the
\* loop ran out and the function ended without a return statement.
\* outcome of the k-th call of fn; a backend asked more often than its script
\* is long repeats its last answer
Outcome(outs, k) == IF k \in DOMAIN outs THEN outs[k] ELSE outs[Len(outs)]

RECURSIVE RetryLoop(_, _, _, _, _)
RetryLoop(rv, isPro, outs, i, sleeps) ==
    IF i >= MaxRetries(rv, isPro)
    THEN FellThrough(i, sleeps)
    ELSE LET o == Outcome(outs, i + 1) IN
         IF o.ok
         THEN Returned(i, sleeps)
         ELSE IF RethrowOnLast(rv) /\ i = MaxRetries(rv, isPro) - 1
         THEN Thrown(i, o.status, sleeps)
         ELSE IF IsRetryable(rv, o.status)
         THEN RetryLoop(rv, isPro, outs, i + 1, Append(sleeps, i))
         ELSE Thrown(i, o.status, sleeps)

callGeminiWithRetry(rv, isPro, outs) == RetryLoop(rv, isPro, outs, 0, <<>>)

\* const baseDelay = isPro ? 5000 : 2000
BaseDelay(isPro) == IF isPro THEN ProBaseDelay ELSE DefaultBaseDelay

\* Math.pow(2, i)
RECURSIVE Pow2(_)
Pow2(i) == IF i = 0 THEN 1 ELSE 2 * Pow2(i - 1)

\* Math.random() * 2000 in whole milliseconds: a value from 0 up to, not
\* including, 2000
Jitters == {0, JitterRange \div 2, JitterRange - 1}

DelayWithScaledJitter(isPro, i, jitter) == Pow2(i) * (BaseDelay(isPro) + jitter)

\* const delay = (Math.pow(2, i) * baseDelay) + (Math.random() * 2000)
Delay(isPro, i, jitter) == (Pow2(i) * BaseDelay(isPro)) + jitter

\* the delays of the setTimeout calls of a finished call, in order, when
\* Math.random() yields jitter every time
SleepDelays(res, isPro, jitter) ==
    [k \in 1..Len(res.sleeps) |-> Delay(isPro, res.sleeps[k], jitter)]

\* a script fixes the backend's answer to every call a retry loop can make
Scripts == [1..ProMaxRetries -> Outcomes]

NoCall == [rv |-> "none", isPro |-> FALSE, outs |-> <<>>]
NoResult == [kind |-> "none", status |-> 0, value |-> -1, calls |-> 0, sleeps |-> <<>>]

(***************************************************************************)
(* The /process endpoint variants                                          *)
(*   "cas"       : src/index.js:45       pull, guarded cancel + refund     *)
(*   "casauth"   : src/unnamed/part_001:244 pull, secret checked, guarded  *)
(*                                          cancel + refund                *)
(*   "nocas"     : src/unnamed/part_005:42  pull, unguarded cancel + refund*)
(*   "nocomp"    : src/index.js:271      pull, catch only logs             *)
(*   "refundall" : src/index.js:473      pull, retry, failed + refund      *)
(*   "failonly"  : src/unnamed/part_003:46  pull, retry, failed            *)
(*   "push"      : src/unnamed/part_002:175 job delivered in the request   *)
(*   "byid"      : src/index.js:656      job selected by job_id            *)
(*   "timed"     : src/unnamed/part_006:114 by job_id, generation bounded  *)
(*                                          by withTimeout                 *)
(*   "video"     : src/unnamed/part_004:46  by job_id, three job types,    *)
(*                                          video operation polled         *)
(***************************************************************************)
Variants == {"cas", "casauth", "nocas", "nocomp", "refundall", "failonly", "push",
             "byid", "timed", "video"}

Invocations == 1..NumInvocations
JobIds == 1..NumJobs
NoJob == 0

JobTypes == {"generate-image", "analyze-material", "generate-video"}
Costs == {0, 5}
Terminal == {"completed", "failed", "cancelled"}

Mode(v) ==
    IF v = "push" THEN "push" ELSE IF v \in {"byid", "timed", "video"} THEN "byid" ELSE "pull"

\* if (req.headers["x-worker-secret"] !== process.env.WORKER_SECRET) return 401
ChecksSecret(v) == v \in {"casauth", "nocas", "refundall", "failonly", "push"}

\* whether the check reads if (!process.env.WORKER_SECRET || ...)
RejectsWhenSecretUnset(v) == v = "casauth"

\* whether the worker exits at startup when WORKER_SECRET is missing
\* (REQUIRED_ENVS lists it and the loop calls process.exit(1))
ExitsWithoutSecret(v) == v = "nocas"

\* what a request carries in x-worker-secret: nothing, the string the
\* operator chose as the secret, or another string
Headers == {"absent", "secret", "other"}

\* req.headers["x-worker-secret"] === process.env.WORKER_SECRET: an unset
\* variable and an absent header are both undefined
SecretMatches(secretSet, header) ==
    IF secretSet THEN header = "secret" ELSE header = "absent"

\* whether the variant's secret check lets the request through
PassesSecretCheck(v, secretSet, header) ==
    /\ SecretMatches(secretSet, header)
    /\ RejectsWhenSecretUnset(v) => secretSet

\* const { data, error } = rpc(...); if (error) return 500  -- against
\* const { data } = rpc(...), where an rpc error leaves data null
ChecksClaimError(v) == v \in {"cas", "casauth", "nocas", "nocomp"}

SupportedTypes(v) ==
    IF v = "video" THEN {"generate-image", "generate-video", "analyze-material"}
    ELSE IF v \in {"refundall", "failonly", "push"}
    THEN {"generate-image", "analyze-material"}
    ELSE {"generate-image"}

\* which callGeminiWithRetry the variant's handlers wrap the backend call in
RetryOf(v) ==
    IF v \in {"refundall", "push"} THEN "fixed"
    ELSE IF v = "failonly" THEN "tiered"
    ELSE "none"

NoErr == [raised |-> FALSE, status |-> 0, msg |-> ""]
Raise(status, msg) == [raised |-> TRUE, status |-> status, msg |-> msg]

IdleInv ==
    [pc |-> "idle", job |-> NoJob, type |-> "", cost |-> 0, err |-> NoErr,
     resp |-> 0, ran |-> FALSE, tw |-> 0, rpcErr |-> FALSE, seenTerminal |-> FALSE,
     secretOk |-> FALSE, action |-> "", rf |-> 0, updErr |-> FALSE,
     stErr |-> "", runs |-> 0, claims |-> 0, rfErr |-> FALSE,
     race |-> "none", late |-> FALSE, videoOp |-> "none", polls |-> 0,
     cmpErr |-> FALSE, sent |-> 0]

NewRow(t, c) ==
    [status |-> "pending", type |-> t, cost |-> c, result |-> 0, error |-> ""]
AbsentRow ==
    [status |-> "absent", type |-> "", cost |-> 0, result |-> 0, error |-> ""]

\* rows are created as pending by the enqueuing side; in push mode the caller
\* hands over a job it has already taken out of pending
InitialRows(v) ==
    {AbsentRow} \cup
    {[NewRow(t, c) EXCEPT !.status = IF v = "push" THEN "processing" ELSE "pending"] :
        t \in JobTypes, c \in Costs}

Init ==
    /\ variant \in Variants
    \* a worker that never reads WORKER_SECRET runs the same with and without
    \* it, and is taken with it
    /\ workerSecret \in IF ChecksSecret(variant) /\ ~ExitsWithoutSecret(variant)
                        THEN BOOLEAN ELSE {TRUE}
    /\ jobs \in [JobIds -> InitialRows(variant)]
    /\ inv = [p \in Invocations |-> IdleInv]
    /\ refunds = [j \in JobIds |-> 0]
    /\ termWrites = [j \in JobIds |-> 0]
    /\ rin = NoCall
    /\ rres = NoResult

(***************************************************************************)
(* Handlers                                                                *)
(***************************************************************************)
\* generateImage around a retry-wrapped backend call: a thrown error
\* propagates; a call that ended without returning leaves response undefined
\* and response.candidates raises a TypeError, which carries no status
GenerateWithRetry(rv, isPro, script) ==
    LET r == callGeminiWithRetry(rv, isPro, script) IN
    IF r.kind = "return" THEN NoErr
    ELSE IF r.kind = "throw" THEN Raise(r.status, "backend")
    ELSE Raise(0, "TypeError")

\* the isPro argument generateImage passes: the literal true, or (push)
\* modelName.includes("pro")
ProArg(v, pro) == IF v = "push" THEN pro ELSE TRUE

\* the handler of a job of a supported type against a backend that answers
\* script b1 (and b2 to the preview generation of analyze-material);
\* NoErr when it returns a result
HandlerResult(v, type, pro, b1, b2) ==
    IF RetryOf(v) = "none"
    THEN IF Outcome(b1, 1).ok THEN NoErr ELSE Raise(Outcome(b1, 1).status, "backend")
    ELSE IF type = "generate-image"
    THEN GenerateWithRetry(RetryOf(v), ProArg(v, pro), b1)
    ELSE LET first == GenerateWithRetry(RetryOf(v), FALSE, b1) IN
         IF first.raised THEN first
         ELSE GenerateWithRetry(RetryOf(v), TRUE, b2)

ConstScript(o) == [k \in 1..ProMaxRetries |-> o]
OnceThen(o1, o2) == [k \in 1..ProMaxRetries |-> IF k = 1 THEN o1 ELSE o2]
\* the backend always answers the same, or is overloaded once and then
\* answers; an error without status behaves in the endpoint as one with 400
Behaviours ==
    {ConstScript(o) : o \in Outcomes \ {Err(0)}} \cup {OnceThen(Err(StatusOverloaded), Ok)}

\* what the handler can end with, over the requested model tier and the
\* backend's behaviour, tabulated per variant and job type
HandlerResultTable ==
    [v \in Variants, type \in JobTypes |->
        {HandlerResult(v, type, pro, b1, b2) :
            pro \in BOOLEAN, b1 \in Behaviours, b2 \in Behaviours}]

HandlerResults(v, type) == HandlerResultTable[v, type]

\* withTimeout(generateImage(job.input), 90_000): Promise.race of the
\* generation against a timer that rejects with Error("GENERATION_TIMEOUT");
\* when the timer wins the generation's own outcome is dropped
TimeoutResults(v) ==
    IF v = "timed" THEN {Raise(0, "GENERATION_TIMEOUT")} ELSE {}

\* which of the two promises of the race settled first, for the result r the
\* await ended with; the other one is still outstanding (the timer is never
\* cleared, the generation is never aborted)
RaceWinner(v, r) ==
    IF v # "timed" THEN "none"
    ELSE IF r \in TimeoutResults(v) THEN "timer"
    ELSE "generation"

RaceLoserCompletes(v, me, r) ==
    IF r.raised THEN [me EXCEPT !.late = TRUE]
    ELSE [me EXCEPT !.late = TRUE, !.pc = "complete"]

\* the promise that lost the race settles with r: Promise.race has settled
\* already, so r reaches no code of the endpoint
AfterRace(v, me, r) == [me EXCEPT !.late = TRUE]

(***************************************************************************)
(* The blob store, as the handlers use it                                  *)
(***************************************************************************)
\* the by-job_id handlers return the image as a data: URL and store nothing
UsesBlobStore(v) == v \notin {"byid", "timed", "video"}

\* const { error: uploadError } = await ...upload(...); if (uploadError)
\* throw uploadError (or r2.send, which throws) -- against await
\* ...upload(...) whose { error } is not read
ChecksUploadError(v) == v \in {"cas", "nocomp", "refundall", "push"}

\* which storage operation of a handler run returned an error: none, the
\* download of a reference image, the upload of the result (signing then
\* succeeds), or the signing of its URL
StoreOutcomes(v) ==
    IF UsesBlobStore(v) THEN {"", "download", "upload", "sign"} ELSE {""}

\* what the handler ends with for a storage outcome, the backend having
\* answered: a download or signing error is thrown (or data is null and
\* reading it raises), an upload error only where it is read
StoreResult(v, outcome) ==
    IF outcome \in {"download", "sign"} THEN Raise(0, "storage")
    ELSE IF outcome = "upload" /\ ChecksUploadError(v) THEN Raise(0, "storage")
    ELSE NoErr

(***************************************************************************)
(* The job table                                                           *)
(***************************************************************************)
\* .update(fields).eq("id", j): changes the row with that id when there is one
RowExists(j) == j \in JobIds /\ jobs[j].status # "absent"

Pending == {j \in JobIds : jobs[j].status = "pending"}

\* the terminal write of status st by invocation p to job j, with the row it
\* leaves; counts in termWrites when it changed the row
WriteRow(p, j, row) ==
    IF RowExists(j)
    THEN /\ jobs' = [jobs EXCEPT ![j] = row]
         /\ termWrites' = [termWrites EXCEPT ![j] =
                IF row # jobs[j] /\ row.status \in Terminal THEN @ + 1 ELSE @]
    ELSE UNCHANGED <<jobs, termWrites>>

(***************************************************************************)
(* POST /process                                                           *)
(***************************************************************************)
\* the response ends the invocation; its copy of the job's type and cost is
\* not used after it
Respond(me, code) ==
    [me EXCEPT !.pc = "done", !.resp = code, !.type = "", !.cost = 0,
               !.sent = @ + 1]

ReceivedAnyAction(v, me0, secretOk, jobId, action, cost) ==
    \* the body is read after the secret check
    LET me == [me0 EXCEPT !.secretOk = secretOk, !.action = action] IN
    IF ChecksSecret(v) /\ ~secretOk THEN Respond(me0, 401)
    ELSE IF Mode(v) = "pull" THEN [me EXCEPT !.pc = "claim"]
    ELSE IF Mode(v) = "byid"
    THEN IF jobId = NoJob THEN Respond(me, 400)
         ELSE [me EXCEPT !.pc = "select", !.job = jobId,
                         !.seenTerminal = jobs[jobId].status \in Terminal]
    ELSE [me EXCEPT !.pc = "exec", !.job = jobId, !.type = action, !.cost = cost,
                    !.seenTerminal = jobId # NoJob /\ jobs[jobId].status \in Terminal]

\* the request is received: secret check, then what the variant reads from
\* the body (job_id; or job_id, action, cost in push mode)
Received(v, me0, secretOk, jobId, action, cost) ==
    \* the body is read after the secret check
    LET me == [me0 EXCEPT !.secretOk = secretOk, !.action = action] IN
    IF ChecksSecret(v) /\ ~secretOk THEN Respond(me0, 401)
    ELSE IF Mode(v) = "pull" THEN [me EXCEPT !.pc = "claim"]
    ELSE IF Mode(v) = "byid"
    THEN IF jobId = NoJob THEN Respond(me, 400)
         ELSE [me EXCEPT !.pc = "select", !.job = jobId,
                         !.seenTerminal = jobs[jobId].status \in Terminal]
    ELSE IF action \notin {"generate-image", "analyze-material"} THEN Respond(me, 400)
    ELSE [me EXCEPT !.pc = "exec", !.job = jobId, !.type = action, !.cost = cost,
                    !.seenTerminal = jobId # NoJob /\ jobs[jobId].status \in Terminal]

\* what a request can carry for job_id: in push mode the caller sends the
\* action and cost of the row it dispatches; a request that names no row of
\* the table can carry any
RequestsFor(v, jobId) ==
    IF Mode(v) = "push" /\ RowExists(jobId)
    THEN {[action |-> jobs[jobId].type, cost |-> jobs[jobId].cost]}
    ELSE IF Mode(v) = "push" THEN [action : JobTypes, cost : Costs]
    ELSE {[action |-> "", cost |-> 0]}

\* requests are numbered in their order of arrival
Start(p) ==
    /\ inv[p].pc = "idle"
    /\ \A q \in Invocations : q < p => inv[q].pc # "idle"
    /\ \E header \in Headers, jobId \in JobIds \cup {NoJob} :
          \E req \in RequestsFor(variant, jobId) :
              inv' = [inv EXCEPT ![p] =
                  Received(variant, @, PassesSecretCheck(variant, workerSecret, header),
                           jobId, req.action, req.cost)]
    /\ UNCHANGED <<variant, workerSecret, jobs, refunds, termWrites, rin, rres>>

\* rpc("claim_next_ai_job") on the store: one pending row becomes processing
\* and is handed to the caller, in one atomic step
ClaimNextAiJob(j) ==
    /\ j \in Pending
    /\ jobs' = [jobs EXCEPT ![j].status = "processing"]

\* what the endpoint does with { data, error } of the claim rpc
AfterClaimIgnoringEmpty(v, me, data, error) ==
    IF error /\ ChecksClaimError(v) THEN Respond([me EXCEPT !.rpcErr = TRUE], 500)
    ELSE IF error THEN Respond([me EXCEPT !.rpcErr = TRUE], 204)
    ELSE [me EXCEPT !.pc = "exec", !.job = data,
                    !.type = IF data = NoJob THEN "" ELSE jobs[data].type,
                    !.cost = IF data = NoJob THEN 0 ELSE jobs[data].cost,
                    !.claims = IF data = NoJob THEN @ ELSE @ + 1]

AfterClaimEmptyIsError(v, me, data, error) ==
    IF error /\ ChecksClaimError(v) THEN Respond([me EXCEPT !.rpcErr = TRUE], 500)
    ELSE IF error THEN Respond([me EXCEPT !.rpcErr = TRUE], 204)
    ELSE IF data = NoJob THEN Respond(me, 500)
    ELSE [me EXCEPT !.pc = "exec", !.job = data, !.type = jobs[data].type,
                    !.cost = jobs[data].cost, !.claims = @ + 1]

AfterClaim(v, me, data, error) ==
    IF error /\ ChecksClaimError(v) THEN Respond([me EXCEPT !.rpcErr = TRUE], 500)
    ELSE IF error THEN Respond([me EXCEPT !.rpcErr = TRUE], 204)
    ELSE IF data = NoJob THEN Respond(me, 204)
    ELSE [me EXCEPT !.pc = "exec", !.job = data, !.type = jobs[data].type,
                    !.cost = jobs[data].cost, !.claims = @ + 1]

Claim(p) ==
    /\ inv[p].pc = "claim"
    /\ \/ /\ inv' = [inv EXCEPT ![p] = AfterClaim(variant, @, NoJob, TRUE)]
          /\ UNCHANGED jobs
       \/ /\ Pending = {}
          /\ inv' = [inv EXCEPT ![p] = AfterClaim(variant, @, NoJob, FALSE)]
          /\ UNCHANGED jobs
       \/ \E j \in JobIds :
             /\ ClaimNextAiJob(j)
             /\ inv' = [inv EXCEPT ![p] = AfterClaim(variant, @, j, FALSE)]
    /\ UNCHANGED <<variant, workerSecret, refunds, termWrites, rin, rres>>

\* .from("ai_jobs").select("*").eq("id", job_id).single()
\* if (error || !job) return 404
Selected(me) ==
    IF ~RowExists(me.job) THEN Respond(me, 404)
    ELSE [me EXCEPT !.pc = "setproc", !.type = jobs[me.job].type,
                    !.cost = jobs[me.job].cost]

Select(p) ==
    /\ inv[p].pc = "select"
    /\ inv' = [inv EXCEPT ![p] = Selected(@)]
    /\ UNCHANGED <<variant, workerSecret, jobs, refunds, termWrites, rin, rres>>

\* .update({ status: "processing" }).eq("id", job_id)
SetProcessing(p) ==
    /\ inv[p].pc = "setproc"
    /\ jobs' = IF RowExists(inv[p].job)
               THEN [jobs EXCEPT ![inv[p].job].status = "processing"]
               ELSE jobs
    /\ inv' = [inv EXCEPT ![p].pc = "exec"]
    /\ UNCHANGED <<variant, workerSecret, refunds, termWrites, rin, rres>>

CaughtRunsAgain(v, me, err) ==
    IF me.runs < 2 /\ me.ran THEN [me EXCEPT !.err = err, !.pc = "exec"]
    ELSE Respond([me EXCEPT !.err = err], 500)

CaughtOnlyLogs(v, me, err) == Respond([me EXCEPT !.err = err], 500)

\* the catch block up to its first store call: which compensation the
\* variant starts for the error it caught
Caught(v, me, err) ==
    LET e == [me EXCEPT !.err = err] IN
    IF v = "nocomp" THEN Respond(e, 500)
    ELSE IF v \in {"cas", "casauth", "nocas"}
    THEN IF err.status = StatusOverloaded /\ me.job # NoJob THEN [e EXCEPT !.pc = "cancel"]
         ELSE IF me.job # NoJob THEN [e EXCEPT !.pc = "fail"]
         ELSE Respond(e, 500)
    ELSE IF me.job = NoJob THEN Respond(e, 500)
    ELSE [e EXCEPT !.pc = "fail"]

\* the error dispatch throws for a type the variant has no handler for:
\* a fixed text, or one that ends with job.type
UnknownTypeText(v, type) ==
    IF v \in {"cas", "casauth", "video"} THEN "UNKNOWN_JOB_TYPE"
    ELSE IF v = "nocas" THEN "UNSUPPORTED_JOB_TYPE"
    ELSE IF v \in {"nocomp", "byid", "timed"} THEN "UNKNOWN_JOB_TYPE: " \o type
    ELSE "UNSUPPORTED: " \o type

\* what the catch block writes to the row's error column: String(err), or
\* err.message
ErrorText(v, err) ==
    IF v \in {"cas", "casauth", "nocas", "byid", "timed", "video"} THEN "Error: " \o err.msg ELSE err.msg

(***************************************************************************)
(* generateVideo: src/unnamed/part_004:161                                 *)
(***************************************************************************)
\* how the backend's long-running video operation behaves when polled: it
\* reports done within MaxPolls polls, or it never does
VideoOps == {"reports", "never"}

\* what ai.models.generateVideos ends with: it raises, or it returns an
\* operation of one of the two kinds
VideoStarts ==
    {[r |-> Raise(s, "backend"), op |-> "none"] : s \in ErrStatuses \ {0}}
        \cup {[r |-> NoErr, op |-> o] : o \in VideoOps}

\* const op = await ai.models.generateVideos(...); let finalOp = op
AfterVideoStart(v, me, start) ==
    IF start.r.raised THEN Caught(v, me, start.r)
    ELSE [me EXCEPT !.pc = "poll", !.videoOp = start.op]

\* what the handler ends with once the operation is done: the video is
\* fetched and returned, the operation carries no video, or the fetch raised
VideoEnds ==
    {NoErr, Raise(0, "NO_VIDEO_RETURNED"), Raise(0, "fetch failed")}

\* the test of while (!finalOp.done): not done, the loop body is entered;
\* done, the rest of the handler runs.  The loop has no other exit.
Poll(p) ==
    /\ inv[p].pc = "poll"
    /\ \/ /\ inv[p].videoOp = "never" \/ inv[p].polls < MaxPolls
          /\ inv' = [inv EXCEPT ![p].pc = "sleep"]
       \/ /\ inv[p].videoOp = "reports"
          /\ \E r \in VideoEnds :
                inv' = [inv EXCEPT ![p] =
                    IF r.raised THEN Caught(variant, @, r)
                    ELSE [@ EXCEPT !.pc = "complete"]]
    /\ UNCHANGED <<variant, workerSecret, jobs, refunds, termWrites, rin, rres>>

\* what ai.operations.getVideosOperation ends with: the operation's state,
\* or an error
PollAnswers == {NoErr, Raise(StatusOverloaded, "backend")}

\* the loop body: await the 5 s timer, then finalOp = await
\* ai.operations.getVideosOperation(...), and back to the test; polls counts
\* the turns up to MaxPolls
PollSleep(p) ==
    /\ inv[p].pc = "sleep"
    /\ \E r \in PollAnswers :
          inv' = [inv EXCEPT ![p] =
              IF r.raised THEN Caught(variant, @, r)
              ELSE [@ EXCEPT !.pc = "poll",
                             !.polls = IF @ < MaxPolls THEN @ + 1 ELSE @]]
    /\ UNCHANGED <<variant, workerSecret, jobs, refunds, termWrites, rin, rres>>

\* dispatch on job.type and the handler's run, up to the completed write or
\* the catch block
Exec(p) ==
    /\ inv[p].pc = "exec"
    /\ IF Mode(variant) # "push" /\ inv[p].job = NoJob
       THEN \* job.id of a claim that returned no row
            inv' = [inv EXCEPT ![p] = Caught(variant, @, Raise(0, "TypeError"))]
       ELSE IF inv[p].type \notin SupportedTypes(variant)
       THEN inv' = [inv EXCEPT ![p] = Caught(variant, @,
                               Raise(0, UnknownTypeText(variant, inv[p].type)))]
       ELSE IF inv[p].type = "generate-video"
       THEN \E r \in VideoStarts :
                LET me == [inv[p] EXCEPT !.ran = TRUE, !.runs = @ + 1] IN
                inv' = [inv EXCEPT ![p] = AfterVideoStart(variant, me, r)]
       ELSE \E r \in HandlerResults(variant, inv[p].type) \cup TimeoutResults(variant),
                 outcome \in StoreOutcomes(variant) :
                LET me == [inv[p] EXCEPT !.ran = TRUE, !.runs = @ + 1,
                                         !.race = RaceWinner(variant, r)]
                    stored == [me EXCEPT !.stErr = outcome]
                IN  inv' = [inv EXCEPT ![p] =
                        IF outcome = "download"
                        THEN Caught(variant, stored, StoreResult(variant, outcome))
                        ELSE IF r.raised THEN Caught(variant, me, r)
                        ELSE IF StoreResult(variant, outcome).raised
                        THEN Caught(variant, stored, StoreResult(variant, outcome))
                        ELSE [stored EXCEPT !.pc = "complete"]]
    /\ UNCHANGED <<variant, workerSecret, jobs, refunds, termWrites, rin, rres>>

\* the generation settles after the timer has rejected the race, or the timer
\* fires after the generation has settled it
LoserSettles(p) ==
    /\ inv[p].race # "none"
    /\ ~inv[p].late
    /\ \E r \in IF inv[p].race = "timer"
                THEN HandlerResults(variant, "generate-image")
                ELSE TimeoutResults(variant) :
          inv' = [inv EXCEPT ![p] = AfterRace(variant, @, r)]
    /\ UNCHANGED <<variant, workerSecret, jobs, refunds, termWrites, rin, rres>>

\* await supabase...update({ status: "completed", result }).eq("id", job.id);
\* return res.sendStatus(200) -- the { error } the update resolves to is not
\* read
AfterCompleteUpdate(me, error) ==
    Respond([me EXCEPT !.tw = @ + 1, !.updErr = error], 200)

\* .update({ status: "completed", result }).eq("id", job.id): the store
\* applies it, or rejects it with an error and leaves the row as it was
Complete(p) ==
    /\ inv[p].pc = "complete"
    /\ \/ /\ WriteRow(p, inv[p].job,
                 [jobs[inv[p].job] EXCEPT !.status = "completed", !.result = p])
          /\ inv' = [inv EXCEPT ![p] = AfterCompleteUpdate(@, FALSE)]
       \/ /\ RowExists(inv[p].job)
          /\ UNCHANGED <<jobs, termWrites>>
          /\ inv' = [inv EXCEPT ![p] = AfterCompleteUpdate(@, TRUE)]
    /\ UNCHANGED <<variant, workerSecret, refunds, rin, rres>>

\* whether the cancel update carries .eq("status", "processing")
CancelIsGuarded(v) == v \in {"cas", "casauth"}

\* what the catch block does with the cancelled update's result: the guarded
\* variants stop when no row came back (if (!cancelledJob) return
\* res.sendStatus(200)), which is also what a store error gives; the
\* unguarded one reads nothing of it
AfterCancelUpdate(v, me, returned, error) ==
    LET m == [me EXCEPT !.tw = @ + 1, !.cmpErr = error] IN
    IF CancelIsGuarded(v) /\ ~returned THEN Respond(m, 200)
    ELSE [m EXCEPT !.pc = "refund"]

\* .update({ status: "cancelled", error }).eq("id", job.id) [.eq("status",
\* "processing").select().single()]: the store applies it to the row that
\* matches, or rejects it with an error and leaves the row as it was
Cancel(p) ==
    LET j == inv[p].job
        matches == ~CancelIsGuarded(variant) \/ (RowExists(j) /\ jobs[j].status = "processing")
    IN
    /\ inv[p].pc = "cancel"
    /\ \/ /\ IF matches
             THEN WriteRow(p, j, [jobs[j] EXCEPT !.status = "cancelled",
                                                 !.error = "overloaded"])
             ELSE UNCHANGED <<jobs, termWrites>>
          /\ inv' = [inv EXCEPT ![p] = AfterCancelUpdate(variant, @, matches, FALSE)]
       \/ /\ RowExists(j)
          /\ UNCHANGED <<jobs, termWrites>>
          /\ inv' = [inv EXCEPT ![p] = AfterCancelUpdate(variant, @, FALSE, TRUE)]
    /\ UNCHANGED <<variant, workerSecret, refunds, rin, rres>>

\* whether the failed write is followed by if (job.cost > 0) rpc("refund_credits")
RefundsOnFail(v) == v \in {"refundall", "push"}

AfterFailUpdateThrows(v, me, error) ==
    LET m == [me EXCEPT !.tw = @ + 1, !.cmpErr = error] IN
    IF error THEN [m EXCEPT !.pc = "ended"]
    ELSE IF RefundsOnFail(v) /\ me.cost > 0 THEN [m EXCEPT !.pc = "refund"]
    ELSE Respond(m, 500)

\* what the catch block does after the failed update: the { error } it
\* resolves to is not read; the refund where the variant has one, then the
\* response
AfterFailUpdate(v, me, error) ==
    LET m == [me EXCEPT !.tw = @ + 1, !.cmpErr = error] IN
    IF RefundsOnFail(v) /\ me.cost > 0 THEN [m EXCEPT !.pc = "refund"]
    ELSE Respond(m, 500)

\* .update({ status: "failed", error }).eq("id", job.id): the store applies
\* it, or rejects it with an error and leaves the row as it was
Fail(p) ==
    LET j == inv[p].job IN
    /\ inv[p].pc = "fail"
    /\ \/ /\ WriteRow(p, j, [jobs[j] EXCEPT !.status = "failed",
                                            !.error = ErrorText(variant, inv[p].err)])
          /\ inv' = [inv EXCEPT ![p] = AfterFailUpdate(variant, @, FALSE)]
       \/ /\ RowExists(j)
          /\ UNCHANGED <<jobs, termWrites>>
          /\ inv' = [inv EXCEPT ![p] = AfterFailUpdate(variant, @, TRUE)]
    /\ UNCHANGED <<variant, workerSecret, refunds, rin, rres>>

\* await supabase.rpc("refund_user_credits" / "refund_credits", ...) and the
\* response after it: the rpc resolves to { error } when the store rejects
\* it, which is not read (or is only logged)
AfterRefund(v, me, error) ==
    Respond([me EXCEPT !.rf = @ + 1, !.rfErr = error],
            IF v \in {"cas", "casauth", "nocas"} THEN 200 ELSE 500)

\* the refund rpc is issued; the store applies it or rejects it
Refund(p) ==
    /\ inv[p].pc = "refund"
    /\ refunds' = [refunds EXCEPT ![inv[p].job] = @ + 1]
    /\ \E error \in BOOLEAN :
          inv' = [inv EXCEPT ![p] = AfterRefund(variant, @, error)]
    /\ UNCHANGED <<variant, workerSecret, jobs, termWrites, rin, rres>>

Next ==
    \E p \in Invocations :
        \/ Start(p)
        \/ Claim(p)
        \/ Select(p)
        \/ SetProcessing(p)
        \/ Exec(p)
        \/ LoserSettles(p)
        \/ Poll(p)
        \/ PollSleep(p)
        \/ Complete(p)
        \/ Cancel(p)
        \/ Fail(p)
        \/ Refund(p)

Spec == Init /\ [][Next]_vars

(***************************************************************************)
(* The pull-mode workers alone                                             *)
(***************************************************************************)
\* deployed with WORKER_SECRET set: without it a checking worker treats the
\* request without a header as it treats the one with the secret here
InitPull == Init /\ Mode(variant) = "pull" /\ workerSecret

NextPull ==
    \E p \in Invocations :
        \/ Start(p)
        \/ Claim(p)
        \/ Exec(p)
        \/ Complete(p)
        \/ Cancel(p)
        \/ Fail(p)
        \/ Refund(p)

SpecPull == InitPull /\ [][NextPull]_vars

(***************************************************************************)
(* The push-mode worker alone                                              *)
(***************************************************************************)
InitPush == Init /\ variant = "push"

NextPush ==
    \E p \in Invocations :
        \/ Start(p)
        \/ Exec(p)
        \/ Complete(p)
        \/ Fail(p)
        \/ Refund(p)

SpecPush == InitPush /\ [][NextPush]_vars

(***************************************************************************)
(* The by-job_id worker with the generation timeout alone                  *)
(***************************************************************************)
\* this worker never reads a job's cost and has no refund: rows are taken
\* with cost 0
InitTimed == Init /\ variant = "timed" /\ \A j \in JobIds : jobs[j].cost = 0

\* every request carries the worker secret (this worker never reads it)
NextTimed ==
    \E p \in Invocations :
        \/ Start(p) /\ inv'[p].secretOk
        \/ Select(p)
        \/ SetProcessing(p)
        \/ Exec(p)
        \/ LoserSettles(p)
        \/ Complete(p)
        \/ Fail(p)

SpecTimed == InitTimed /\ [][NextTimed]_vars

(***************************************************************************)
(* The by-job_id worker that polls video operations alone; a request that  *)
(* has arrived is run to its end by the event loop                         *)
(***************************************************************************)
InitVideo == Init /\ variant = "video"

\* the steps of invocation p after its request has arrived
RunVideo(p) ==
    \/ Select(p)
    \/ SetProcessing(p)
    \/ Exec(p)
    \/ Poll(p)
    \/ PollSleep(p)
    \/ Complete(p)
    \/ Fail(p)

\* every request carries the worker secret (this worker never reads it)
NextVideo ==
    \E p \in Invocations :
        \/ Start(p) /\ inv'[p].secretOk
        \/ RunVideo(p)

SpecVideo ==
    InitVideo /\ [][NextVideo]_vars /\ \A p \in Invocations : WF_vars(RunVideo(p))

(***************************************************************************)
(* The workers whose catch block writes to the job row                     *)
(***************************************************************************)
InitCompensating == Init /\ variant # "nocomp"

SpecCompensating == InitCompensating /\ [][Next]_vars

(***************************************************************************)
(* Duplicate failure handling: every invocation has caught an overload     *)
(* error for a job and is about to cancel it, in the two workers that      *)
(* cancel; the row is as the claim or an earlier attempt left it           *)
(***************************************************************************)
Compensating(j) ==
    [IdleInv EXCEPT !.pc = "cancel", !.job = j, !.type = jobs[j].type,
                    !.cost = jobs[j].cost, !.ran = TRUE, !.runs = 1,
                    !.claims = 1, !.secretOk = TRUE,
                    !.err = Raise(StatusOverloaded, "backend")]

InitCancel ==
    /\ variant \in {"cas", "nocas"}
    /\ workerSecret = TRUE
    /\ jobs \in [JobIds -> {[NewRow(t, c) EXCEPT !.status = st] :
                    t \in JobTypes, c \in Costs, st \in {"processing"} \cup Terminal}]
    /\ \E h \in [Invocations -> JobIds] :
          inv = [p \in Invocations |-> Compensating(h[p])]
    /\ refunds = [j \in JobIds |-> 0]
    /\ termWrites = [j \in JobIds |-> 0]
    /\ rin = NoCall
    /\ rres = NoResult

NextCancel == \E p \in Invocations : Cancel(p) \/ Refund(p)

SpecCancel == InitCancel /\ [][NextCancel]_vars

(***************************************************************************)
(* callGeminiWithRetry on its own: every script, both variants, both tiers *)
(***************************************************************************)
InitRetry ==
    /\ variant = "nocomp"
    /\ workerSecret = TRUE
    /\ jobs = [j \in JobIds |-> AbsentRow]
    /\ inv = [p \in Invocations |-> IdleInv]
    /\ refunds = [j \in JobIds |-> 0]
    /\ termWrites = [j \in JobIds |-> 0]
    /\ rin \in [rv : RetryVariants, isPro : BOOLEAN, outs : Scripts]
    /\ rres = NoResult

RetryCall ==
    /\ rres.kind = "none"
    /\ rres' = callGeminiWithRetry(rin.rv, rin.isPro, rin.outs)
    /\ UNCHANGED <<variant, workerSecret, jobs, inv, refunds, termWrites, rin>>

NextRetry == RetryCall

SpecRetry == InitRetry /\ [][NextRetry]_vars

(***************************************************************************)
(* Properties of callGeminiWithRetry (checked under SpecRetry)             *)
(***************************************************************************)
RetryEnded == rres.kind # "none"

\* every call of the wrapped operation raises an error the variant retries
AlwaysRetryable ==
    \A k \in DOMAIN rin.outs :
        ~rin.outs[k].ok /\ IsRetryable(rin.rv, rin.outs[k].status)

\* maxAttempts of the specified policy: 3 by default, 6 for the higher tier
PolicyMaxAttempts(isPro) == IF isPro THEN ProMaxRetries ELSE DefaultMaxRetries

\* C7 -- Retry bound respected: when the wrapped operation raises a retryable
\* error on every call, callGeminiWithRetry calls it exactly maxAttempts times
\* (3 for the default policy, 6 for the higher tier) and then raises.
RetryBoundRespected ==
    (RetryEnded /\ AlwaysRetryable) =>
        /\ rres.calls = PolicyMaxAttempts(rin.isPro)
        /\ rres.kind = "throw"

\* C8 -- Exhaustion re-raises: when every attempt fails with a retryable
\* error, the call ends by raising the last attempt's error with its status
\* unchanged; it never returns a value, undefined included.
ExhaustionReraises ==
    (RetryEnded /\ AlwaysRetryable) =>
        /\ rres.kind = "throw"
        /\ rres.status = Outcome(rin.outs, rres.calls).status

\* the first call raises an error of a class no policy retries
FirstCallFatal == ~rin.outs[1].ok /\ rin.outs[1].status \in FatalStatuses

\* C9 -- Fatal short-circuit: when the first call of the wrapped operation
\* raises a non-retryable error, callGeminiWithRetry has called the operation
\* exactly once, has not slept, and raises that error, in both variants and
\* for both tiers (maxAttempts 3 and 6).
FatalShortCircuit ==
    (RetryEnded /\ FirstCallFatal) =>
        /\ rres.kind = "throw"
        /\ rres.status = rin.outs[1].status
        /\ rres.calls = 1
        /\ rres.sleeps = <<>>

\* a bad-request error on the first call of a pro-tier call with six attempts
\* to spend was raised after one call
FatalShortCircuitWitness ==
    /\ RetryEnded
    /\ rin.rv = "tiered" /\ rin.isPro
    /\ MaxRetries(rin.rv, rin.isPro) = ProMaxRetries
    /\ ~rin.outs[1].ok /\ rin.outs[1].status = 400
    /\ rres.kind = "throw" /\ rres.calls = 1

(***************************************************************************)
(* Properties of the job lifecycle (checked under Spec and SpecPull)       *)
(***************************************************************************)
Holds(p) == inv[p].job # NoJob
Done(p) == inv[p].pc = "done"

\* the claim rpc has returned to p, without a store-access error
ClaimReturned(p) ==
    /\ inv[p].pc \notin {"idle", "claim"}
    /\ inv[p].resp # 401
    /\ ~inv[p].rpcErr

\* the store was set up with exactly one job
OneJobQueued == Cardinality({j \in JobIds : jobs[j].status # "absent"}) = 1

\* C1 -- At-most-one-claim: in pull mode against a store holding exactly one
\* pending job, among the invocations whose claim has returned exactly one
\* obtained the job, and only it runs a handler (it has run the handler of a
\* job of a supported type once past dispatch); every other one got 204 and
\* ran no handler.
AtMostOneClaim ==
    (Mode(variant) = "pull" /\ OneJobQueued) =>
        LET claimed == {p \in Invocations : ClaimReturned(p)} IN
        /\ claimed # {} => Cardinality({p \in claimed : Holds(p)}) = 1
        /\ \A p \in Invocations : (Holds(p) \/ inv[p].ran) => p \in claimed /\ Holds(p)
        /\ \A p \in claimed :
              ~Holds(p) => Done(p) /\ inv[p].resp = 204 /\ ~inv[p].ran
        /\ \A p \in claimed :
              (Holds(p) /\ inv[p].pc # "exec"
                  /\ jobs[inv[p].job].type \in SupportedTypes(variant)) => inv[p].ran

\* two claims have returned against one queued job: one invocation holds the
\* job and ran its handler, the other was told the queue is empty
AtMostOneClaimWitness ==
    /\ Mode(variant) = "pull" /\ OneJobQueued
    /\ \E p, q \in Invocations :
          /\ p # q
          /\ ClaimReturned(p) /\ Holds(p) /\ inv[p].ran
          /\ ClaimReturned(q) /\ ~Holds(q) /\ inv[q].resp = 204

\* C2 -- No double terminal write: for every job the number of writes of
\* completed, failed or cancelled that changed its row is never more than 1,
\* and is exactly 1 once the job is in a terminal state.
NoDoubleTerminalWrite ==
    \A j \in JobIds :
        /\ termWrites[j] <= 1
        /\ jobs[j].status \in Terminal => termWrites[j] = 1

\* C3 -- Idempotent re-submission: an invocation that was handed the job_id of
\* a job already in a terminal state runs no handler, issues no status write
\* and issues no refund.
IdempotentResubmission ==
    \A p \in Invocations :
        inv[p].seenTerminal =>
            /\ ~inv[p].ran
            /\ inv[p].tw = 0
            /\ inv[p].pc \notin {"setproc", "exec", "complete", "cancel", "fail", "refund"}

\* C4 -- Refund-once: for any job, over every interleaving of the invocations
\* that handle its failure, the refund operation is called at most once.
RefundOnce == \A j \in JobIds : refunds[j] <= 1

\* C5 -- Every handler failure is compensated: an invocation that accepted a
\* job and whose dispatch or handler raised has issued exactly one terminal
\* status write (failed or cancelled) for it by the time it responds.
EveryFailureCompensated ==
    \A p \in Invocations :
        (Done(p) /\ Holds(p) /\ inv[p].err.raised) => inv[p].tw = 1

\* the status order pending -> processing -> {completed, failed, cancelled}
LegalStatusStep(from, to) ==
    \/ to = from
    \/ from = "pending" /\ to = "processing"
    \/ from = "processing" /\ to \in Terminal

\* C6 -- Lifecycle ordering: every write to a job's status follows pending ->
\* processing -> one of completed, failed, cancelled; a job in a terminal
\* state is never set back to processing or to another terminal state.
LifecycleOrdering ==
    [][\A j \in JobIds : LegalStatusStep(jobs[j].status, jobs'[j].status)]_vars

\* C10 -- Overload exhaustion is cancelled and refunded: when the error that
\* reached the worker loop for an accepted job is of the transient-overload
\* class (429, 500, 503), the invocation leaves the job cancelled, and one
\* refund has been issued for it when its recorded cost is positive.
OverloadCancelledAndRefunded ==
    \A p \in Invocations :
        (Done(p) /\ Holds(p) /\ RowExists(inv[p].job)
            /\ inv[p].err.raised /\ inv[p].err.status \in TransientStatuses) =>
            /\ jobs[inv[p].job].status = "cancelled"
            /\ jobs[inv[p].job].cost > 0 => refunds[inv[p].job] = 1

(***************************************************************************)
(* Error handling of the endpoint (checked under Spec)                     *)
(***************************************************************************)
\* p has responded after the dispatch or the handler of the job it accepted
\* raised err, and the job has a row
FailedWith(p) ==
    /\ Done(p) /\ Holds(p) /\ RowExists(inv[p].job)
    /\ inv[p].err.raised

\* the error column holds the message of err, as err.message or String(err)
RecordsMessage(text, err) == text \in {err.msg, "Error: " \o err.msg}

\* C11 -- Hard failure is failed without refund: when the error that reached
\* the worker loop for an accepted job is not of the transient class (fatal
\* backend error, validation error, unknown type), the invocation leaves the
\* job failed with the error's message, and no refund was called for the job.
HardFailureFailedNoRefund ==
    \A p \in Invocations :
        (FailedWith(p) /\ inv[p].err.status \notin TransientStatuses) =>
            /\ jobs[inv[p].job].status = "failed"
            /\ RecordsMessage(jobs[inv[p].job].error, inv[p].err)
            /\ refunds[inv[p].job] = 0

\* the error text ends with the type string
CarriesType(text, type) ==
    \E a \in {"", "Error: "}, b \in {"UNKNOWN_JOB_TYPE: ", "UNSUPPORTED: "} :
        text = a \o b \o type

\* C12 -- Unknown job type: when the type of the job an invocation claimed
\* (or selected by id) is not one the worker has a handler for, no handler
\* ran, the only write of the invocation's failure path is the one that
\* leaves the job failed with an error text that carries the type string, and
\* no refund was issued.
UnknownTypeFailsCleanly ==
    \A p \in Invocations :
        (Done(p) /\ Holds(p) /\ RowExists(inv[p].job) /\ Mode(variant) # "push"
            /\ jobs[inv[p].job].type \notin SupportedTypes(variant)) =>
            /\ ~inv[p].ran
            /\ inv[p].tw = 1 /\ inv[p].rf = 0
            /\ jobs[inv[p].job].status = "failed"
            /\ CarriesType(jobs[inv[p].job].error, jobs[inv[p].job].type)
            /\ refunds[inv[p].job] = 0

(***************************************************************************)
(* Request validation and response codes                                   *)
(***************************************************************************)
\* p has received its request
Arrived(p) == inv[p].pc # "idle"

\* p read no row, claimed or wrote none, ran no handler and issued no refund
TouchedNothing(p) ==
    /\ inv[p].pc \in {"idle", "done"}
    /\ ~Holds(p) /\ ~inv[p].ran
    /\ inv[p].tw = 0 /\ inv[p].rf = 0
    /\ inv[p].resp # 404

\* C13 -- Unauthorized requests touch nothing: an invocation whose request
\* did not carry the configured secret has responded 401 and has claimed no
\* job, updated no row, run no handler and issued no refund.
UnauthorizedTouchesNothing ==
    \A p \in Invocations :
        (Arrived(p) /\ ~inv[p].secretOk) =>
            /\ Done(p) /\ inv[p].resp = 401
            /\ TouchedNothing(p)

\* C14 -- Push mode is authenticated: in the workers that take the job's
\* identity from the request body, an invocation has read or written a job
\* row or run a handler only if its request carried the configured secret.
PushModeAuthenticated ==
    \A p \in Invocations :
        (Mode(variant) # "pull" /\ Arrived(p) /\ inv[p].resp \notin {400, 401}
            /\ inv[p].pc # "select") => inv[p].secretOk

\* the actions the push worker supports
PushActions == {"generate-image", "analyze-material"}

\* C15 -- Push mode rejects unsupported actions without side effects: an
\* authenticated push request whose action is not generate-image or
\* analyze-material has been answered 400, and its invocation has run no
\* handler, updated no row and issued no refund.
PushRejectsUnsupportedAction ==
    \A p \in Invocations :
        (Mode(variant) = "push" /\ Arrived(p) /\ inv[p].secretOk
            /\ inv[p].action \notin PushActions) =>
            /\ Done(p) /\ inv[p].resp = 400
            /\ TouchedNothing(p)
            /\ ~inv[p].err.raised

\* an authenticated request to run generate-video was answered 400, while
\* another authenticated request ran its handler
PushRejectsUnsupportedActionWitness ==
    /\ Mode(variant) = "push"
    /\ \E p, q \in Invocations :
          /\ Done(p) /\ inv[p].resp = 400 /\ inv[p].secretOk
          /\ inv[p].action = "generate-video"
          /\ inv[q].ran /\ inv[q].secretOk

\* the claim rpc returned to p neither a job nor an error
ClaimedNothing(p) == ClaimReturned(p) /\ ~Holds(p)

\* C16 -- Empty queue is a no-op: in pull mode an invocation whose claim
\* returned no job and no error has responded 204 and has run no handler,
\* updated no row and issued no refund.
EmptyQueueNoOp ==
    \A p \in Invocations :
        (Mode(variant) = "pull" /\ ClaimedNothing(p)) =>
            /\ Done(p) /\ inv[p].resp = 204
            /\ TouchedNothing(p)
            /\ ~inv[p].err.raised

\* an invocation found no pending job in a table that has rows, and answered
\* 204
EmptyQueueNoOpWitness ==
    /\ Mode(variant) = "pull"
    /\ \E j \in JobIds : RowExists(j)
    /\ Pending = {}
    /\ \E p \in Invocations :
          ClaimedNothing(p) /\ Done(p) /\ inv[p].resp = 204

\* C17 -- A store-access failure on claim is not reported as an empty queue:
\* an invocation whose claim rpc returned an error has responded 500, never
\* 204.
ClaimErrorIsFailure ==
    \A p \in Invocations : inv[p].rpcErr => Done(p) /\ inv[p].resp = 500

\* C18 -- A failed status update is not swallowed: an invocation whose
\* completed update was rejected by the store (row unchanged) has not
\* responded 200.
FailedUpdateNotSwallowed ==
    \A p \in Invocations : inv[p].updErr => ~(Done(p) /\ inv[p].resp = 200)

\* C19 -- Response codes in pull mode: 200 only when the claimed job's handler
\* succeeded, 204 only when the claim returned no job and no error, 401 only
\* for a request without the configured secret, and 500 for every other
\* outcome, every outcome in which dispatch or the handler raised included.
PullResponseCodes ==
    \A p \in Invocations :
        (Mode(variant) = "pull" /\ Done(p)) =>
            /\ inv[p].resp \in {200, 204, 401, 500}
            /\ inv[p].resp = 200 => Holds(p) /\ inv[p].ran /\ ~inv[p].err.raised
            /\ inv[p].resp = 204 => ClaimedNothing(p)
            /\ inv[p].resp = 401 => ~inv[p].secretOk
            /\ (inv[p].err.raised \/ inv[p].rpcErr) => inv[p].resp = 500

\* p took a job on: it holds one and was not turned away with 400, 401 or 404
Accepted(p) == Holds(p) /\ inv[p].resp \notin {400, 401, 404}

\* C20 -- One terminal write per invocation: an invocation that accepted a
\* job has, when it responds, issued exactly one terminal status write for
\* it: completed on the success path, or failed or cancelled on the failure
\* path, never both and never none.
OneTerminalWritePerInvocation ==
    \A p \in Invocations :
        (Done(p) /\ Accepted(p)) => inv[p].tw = 1

(***************************************************************************)
(* Compensation (checked under SpecCancel, SpecCompensating, SpecPull)     *)
(***************************************************************************)
\* C21 -- Cancel is a compare-and-set: the step in which an invocation issues
\* the cancelled write changes the row only when the row's status is
\* processing; when it is anything else the row (status, result, error) is
\* left as it was and the invocation does not go on to the refund.
CancelIsCompareAndSet ==
    [][\A p \in Invocations :
          (inv[p].pc = "cancel" /\ inv'[p].pc # "cancel"
              /\ jobs[inv[p].job].status # "processing") =>
              /\ jobs'[inv[p].job] = jobs[inv[p].job]
              /\ inv'[p].pc # "refund"]_vars

\* C22 -- Storage failure is fatal for the attempt: when the download, upload
\* or URL-signing operation of a job's handler returned an error, the handler
\* raised, and the invocation leaves the job failed or cancelled, not
\* completed.
StorageFailureIsFatal ==
    \A p \in Invocations :
        (Done(p) /\ Holds(p) /\ RowExists(inv[p].job) /\ inv[p].stErr # "") =>
            /\ inv[p].err.raised
            /\ inv[p].resp # 200
            /\ jobs[inv[p].job].status \in {"failed", "cancelled"}

(***************************************************************************)
(* Retry policy (checked under SpecRetry)                                  *)
(***************************************************************************)
\* C23 -- Retryable classification: a first error with status 429, 503 or 500
\* is followed by a further attempt; a first error with any other status, or
\* with none, ends the call at once: one call, the error raised.
RetryableClassification ==
    (RetryEnded /\ ~rin.outs[1].ok) =>
        IF rin.outs[1].status \in {StatusRateLimited, StatusOverloaded, StatusInternal}
        THEN rres.calls >= 2
        ELSE rres.calls = 1 /\ rres.kind = "throw"

\* C24 -- Tiered retry policy: against a backend that always raises a
\* retryable error a pro-tier call makes strictly more attempts than a
\* default-tier call, its base delay is strictly larger, and every handler
\* that wraps its backend call in this callGeminiWithRetry passes the tier of
\* the job's requested model.
TieredRetryPolicy ==
    (RetryEnded /\ AlwaysRetryable /\ rin.isPro) =>
        /\ rres.calls > callGeminiWithRetry(rin.rv, FALSE, rin.outs).calls
        /\ BaseDelay(TRUE) > BaseDelay(FALSE)
        /\ \A v \in Variants, pro \in BOOLEAN :
              RetryOf(v) = rin.rv => ProArg(v, pro) = pro

\* C29 -- The retry controller terminates: for every sequence of outcomes the
\* call ends in Success (it returns the value of the attempt that succeeded)
\* or Failure (it raises) after at most maxAttempts calls of the operation,
\* and attempt i+1 was entered only after attempt i raised a retryable error
\* with i+1 < maxAttempts, each such entry after one sleep.
RetryControllerTerminates ==
    RetryEnded =>
        /\ rres.kind \in {"return", "throw"}
        /\ rres.calls \in 1..MaxRetries(rin.rv, rin.isPro)
        /\ Len(rres.sleeps) = rres.calls - 1
        /\ \A k \in 1..(rres.calls - 1) :
              /\ ~rin.outs[k].ok
              /\ rin.outs[k].status \in TransientStatuses
        /\ rres.kind = "return" => rin.outs[rres.calls].ok

\* C30 -- Backoff delay: the sleep between attempt i and attempt i+1 (i from
\* 0) is at least baseDelay * 2^i and less than baseDelay * 2^i + 2000 ms,
\* whatever Math.random() yields; the k-th sleep of a call follows attempt
\* k-1.
BackoffDelayBounded ==
    RetryEnded =>
        \A k \in 1..Len(rres.sleeps), jitter \in Jitters :
            LET d == SleepDelays(rres, rin.isPro, jitter)[k]
                floor == (IF rin.isPro THEN ProBaseDelay ELSE DefaultBaseDelay) * (2 ^ (k - 1))
            IN  /\ rres.sleeps[k] = k - 1
                /\ d >= floor
                /\ d < floor + JitterRange

\* a pro-tier call slept twice, the second time for at least 10 seconds
BackoffDelayBoundedWitness ==
    /\ RetryEnded /\ rin.isPro
    /\ Len(rres.sleeps) >= 2
    /\ SleepDelays(rres, rin.isPro, JitterRange - 1)[2] >= 2 * ProBaseDelay

(***************************************************************************)
(* Compensation and ownership of the row                                   *)
(***************************************************************************)
\* C25 -- Compensation is guarded on the fields it needs: on the failure path
\* an invocation whose job has no id issues no status write and no refund,
\* and an invocation reaches the refund call only for a job whose recorded
\* cost is positive.
CompensationGuarded ==
    \A p \in Invocations :
        inv[p].err.raised =>
            /\ ~Holds(p) =>
                  /\ inv[p].tw = 0 /\ inv[p].rf = 0
                  /\ inv[p].pc \notin {"cancel", "fail", "refund"}
            /\ inv[p].pc = "refund" => inv[p].cost > 0

\* C26 -- One job per invocation, no outer retry: a pull invocation claims at
\* most one job and runs its handler at most once, for the job it claimed;
\* once dispatch or the handler has raised, the invocation is never again at
\* the claim or at the handler.
OneJobPerInvocation ==
    \A p \in Invocations :
        /\ inv[p].claims <= 1
        /\ inv[p].runs <= 1
        /\ inv[p].runs = 1 => Holds(p) /\ inv[p].claims = 1
        /\ inv[p].err.raised => inv[p].pc \notin {"idle", "claim", "exec"}

\* an invocation claimed a job, ran its handler once, the handler raised, and
\* the invocation compensated and responded
OneJobPerInvocationWitness ==
    \E p \in Invocations :
        /\ Done(p) /\ inv[p].claims = 1 /\ inv[p].runs = 1
        /\ inv[p].err.raised /\ inv[p].err.msg = "backend"
        /\ inv[p].tw = 1 /\ inv[p].resp = 500

\* C27 -- Only the claim holder mutates the row: a step in which an
\* invocation issues a completed, failed or cancelled write to an existing
\* row finds the row in processing, and no other invocation has that job.
OnlyHolderWrites ==
    [][\A p \in Invocations :
          (inv'[p].tw > inv[p].tw /\ RowExists(inv[p].job)) =>
              /\ jobs[inv[p].job].status = "processing"
              /\ \A q \in Invocations \ {p} : inv[q].job # inv[p].job]_vars

\* the generation timer of p fired before the generation finished
TimedOut(p) == inv[p].err.raised /\ inv[p].err.msg = "GENERATION_TIMEOUT"

\* C28 -- Timeout is compensated: in the worker that bounds generation with
\* withTimeout, an invocation whose timer expired goes to the failed write;
\* the step in which it issues that write leaves the job's row failed
\* (unless the store rejected the write) and ends the invocation with 500,
\* and it responds in no other way.
TimeoutCompensated ==
    [][\A p \in Invocations :
          (variant = "timed" /\ inv'[p].err.msg = "GENERATION_TIMEOUT") =>
              /\ inv'[p].pc \in {"fail", "done"}
              /\ inv'[p].pc = "done" => inv'[p].tw = 1 /\ inv'[p].resp = 500
              /\ (inv[p].pc = "fail" /\ inv'[p].pc = "done" /\ ~inv'[p].cmpErr) =>
                    jobs'[inv[p].job].status = "failed"]_vars

\* a timed-out generation left its job failed with the timeout's message
TimeoutCompensatedWitness ==
    /\ variant = "timed"
    /\ \E p \in Invocations :
          /\ Done(p) /\ TimedOut(p) /\ inv[p].resp = 500
          /\ jobs[inv[p].job].status = "failed"
          /\ jobs[inv[p].job].error = "Error: GENERATION_TIMEOUT"

(***************************************************************************)
(* Sleeping and returning in callGeminiWithRetry (checked under SpecRetry) *)
(***************************************************************************)
\* C31 -- No sleep after the final attempt: a call sleeps only between two
\* attempts; the attempt with index maxAttempts-1 is followed by no sleep, so
\* a call sleeps at most maxAttempts-1 times and one time fewer than it
\* called the operation.
NoSleepAfterFinalAttempt ==
    RetryEnded =>
        /\ Len(rres.sleeps) <= MaxRetries(rin.rv, rin.isPro) - 1
        /\ \A k \in 1..Len(rres.sleeps) :
              rres.sleeps[k] < MaxRetries(rin.rv, rin.isPro) - 1
        /\ Len(rres.sleeps) < rres.calls

\* index of the first call of the operation that succeeds, 0 when none does
\* within n calls
RECURSIVE FirstOk(_, _, _)
FirstOk(outs, k, n) ==
    IF k > n THEN 0
    ELSE IF Outcome(outs, k).ok THEN k
    ELSE FirstOk(outs, k + 1, n)

\* C32 -- First success wins: a call that returns has returned the value of
\* the first attempt that succeeded and has called the operation no further;
\* a call that ends without raising has returned a value the operation
\* produced.
FirstSuccessWins ==
    RetryEnded =>
        /\ rres.kind = "return" =>
              /\ rres.calls = FirstOk(rin.outs, 1, ProMaxRetries)
              /\ rres.value = rres.calls - 1
        /\ rres.kind # "throw" =>
              /\ rres.kind = "return"
              /\ Outcome(rin.outs, rres.value + 1).ok

(***************************************************************************)
(* Refunds the store accepted (checked under SpecPull)                     *)
(***************************************************************************)
\* the invocations that have job j, and those of them still in flight
HoldersOf(j) == {p \in Invocations : inv[p].job = j}
InFlight(j) == {p \in HoldersOf(j) : ~Done(p)}

\* number of refund rpcs for job j that the store accepted: each invocation
\* issues at most one
AcceptedRefunds(j) ==
    Cardinality({p \in HoldersOf(j) : inv[p].rf > 0 /\ ~inv[p].rfErr})

\* C33 -- Cancelled implies refunded: a job that was written as cancelled
\* with the message that credits were refunded has, once the invocations that
\* handled it have responded, exactly one refund that the store accepted; it
\* is not left cancelled with no successful refund.
CancelledImpliesRefunded ==
    \A j \in JobIds :
        (jobs[j].status = "cancelled" /\ jobs[j].error = "overloaded"
            /\ InFlight(j) = {}) => AcceptedRefunds(j) = 1

(***************************************************************************)
(* Completed rows (checked under SpecPush)                                 *)
(***************************************************************************)
\* C34 -- A completed job is never refunded or overwritten: no step taken
\* while a job's row is completed changes its status to failed or cancelled
\* or issues a refund for that job.
CompletedIsFinal ==
    [][\A j \in JobIds :
          jobs[j].status = "completed" =>
              /\ jobs'[j].status \notin {"failed", "cancelled"}
              /\ refunds'[j] = refunds[j]]_vars

(***************************************************************************)
(* The secret check without a configured secret (checked under Spec)       *)
(***************************************************************************)
\* C35 -- No configured secret means no access: in a worker that checks
\* x-worker-secret and runs without WORKER_SECRET, every request that has
\* arrived was answered 401 and touched nothing, whatever header it carried.
NoSecretNoAccess ==
    (ChecksSecret(variant) /\ ~workerSecret) =>
        \A p \in Invocations :
            Arrived(p) => Done(p) /\ inv[p].resp = 401 /\ TouchedNothing(p)

(***************************************************************************)
(* The generation timeout race (checked under SpecTimed)                   *)
(***************************************************************************)
\* C36 -- Timeout race has one winner: in the worker with the generation
\* timeout, whichever of the timer and the generation settles first and
\* whenever the other settles, an invocation has issued at most one terminal
\* write, and exactly one when it responds for a job it took on; an
\* invocation whose timer fired first issues the failed write, is never at
\* the completed write, and the row never carries a result written by it.
TimeoutRaceOneWinner ==
    variant = "timed" =>
        \A p \in Invocations :
            /\ inv[p].tw <= 1
            /\ (Done(p) /\ Accepted(p)) => inv[p].tw = 1
            /\ TimedOut(p) =>
                  /\ inv[p].race = "timer"
                  /\ inv[p].pc \in {"fail", "done"}
                  /\ Done(p) => inv[p].resp = 500
                  /\ jobs[inv[p].job].result # p

\* a generation that finished after its timer had fired, with its job long
\* written as failed, and a timer that fired after its generation had
\* completed the job
TimeoutRaceOneWinnerWitness ==
    /\ variant = "timed"
    /\ \E p, q \in Invocations :
          /\ Done(p) /\ TimedOut(p) /\ inv[p].late /\ inv[p].tw = 1
          /\ Done(q) /\ inv[q].race = "generation" /\ inv[q].late
          /\ inv[q].resp = 200 /\ inv[q].tw = 1

(***************************************************************************)
(* Video polling (checked under SpecVideo)                                 *)
(***************************************************************************)
\* C37 -- Video polling terminates: every invocation whose request has
\* arrived eventually responds, the invocation of a generate-video job whose
\* backend operation never reports done included, having issued the terminal
\* write for the job it took on.
VideoPollingTerminates ==
    \A p \in Invocations :
        (inv[p].pc # "idle") ~>
            (inv[p].pc = "done" /\ (Accepted(p) => inv[p].tw = 1))

(***************************************************************************)
(* Responses (checked under Spec)                                          *)
(***************************************************************************)
\* the handler of p has run to its end: it returned after its response
\* ("done"), or its promise rejected ("ended")
HandlerEnded(p) == inv[p].pc \in {"done", "ended"}

\* C38 -- Exactly one response per invocation: no invocation has sent more
\* than one response; an invocation whose handler has ended has sent exactly
\* one, also when the cancelled or failed update or the refund rpc of its
\* failure handler was rejected by the store; and nothing of the handler
\* runs after the response.
OneResponsePerInvocation ==
    \A p \in Invocations :
        /\ inv[p].sent <= 1
        /\ HandlerEnded(p) => inv[p].sent = 1 /\ inv[p].resp # 0
        /\ inv[p].sent = 1 => inv[p].pc = "done"
        /\ (inv[p].cmpErr \/ inv[p].rfErr) => inv[p].pc \in {"refund", "done"}

\* one invocation responded after the store rejected its failed update,
\* another after the store rejected its refund
OneResponsePerInvocationWitness ==
    \E p, q \in Invocations :
        /\ Done(p) /\ inv[p].cmpErr /\ inv[p].sent = 1 /\ inv[p].resp = 500
        /\ Done(q) /\ inv[q].rfErr /\ inv[q].sent = 1

====
